---- MODULE Spec2Model ----
(***************************************************************************)
(* EgStore (easygui/boxes/egstore.py): a settings object whose __dict__    *)
(* is pickled to, and merged back from, a backing file.                    *)
(*                                                                         *)
(* An object's __dict__ is a function from attribute names to values; it   *)
(* holds the reserved attribute "_filename" next to the application's      *)
(* fields.  A file is absent or holds a sequence of pickle tokens.         *)
(* Spec is the sequential use of one settings variable; SpecMW is two      *)
(* instances storing to one file with their open/write/close interleaved.  *)
(***************************************************************************)
EXTENDS Integers, Sequences, FiniteSets, TLC

\* ---- bounds ------------------------------------------------------------
\* field values are 0..MaxVal
MaxVal == 1

Vals == 0..MaxVal
\* the names of two backing files
Files == {1, 2}
\* the application's field names; "id" has two characters, "port" four
Keys == {"id", "port"}
Insts == {"A", "B"}

\* the reserved attribute set by EgStore.__init__
FN == "_filename"
\* the default a subclass gives a field before calling super().__init__
Default == 0

\* the characters (code points) of an attribute name
KeyChars(k) ==
  CASE k = "id" -> <<105, 100>>
    [] k = "port" -> <<112, 111, 114, 116>>
    [] k = FN -> <<95, 102, 105, 108, 101, 110, 97, 109, 101>>

\* str comparison: lexicographic over code points
RECURSIVE SeqLess(_, _)
SeqLess(a, b) ==
  IF a = <<>> THEN b # <<>>
  ELSE IF b = <<>> THEN FALSE
  ELSE IF a[1] # b[1] THEN a[1] < b[1]
  ELSE SeqLess(Tail(a), Tail(b))

KeyLess(j, k) == SeqLess(KeyChars(j), KeyChars(k))

\* sorted(names)
RECURSIVE Sorted(_)
Sorted(S) ==
  IF S = {} THEN <<>>
  ELSE LET m == CHOOSE x \in S : \A y \in S \ {x} : KeyLess(x, y)
       IN <<m>> \o Sorted(S \ {m})

EmptyDict == [k \in {} |-> 0]

\* dict.update(other)
Update(d, other) ==
  [k \in DOMAIN d \cup DOMAIN other |-> IF k \in DOMAIN other THEN other[k] ELSE d[k]]

\* every __dict__ over the names N
Dicts(N) == UNION {[S -> Vals] : S \in SUBSET N}

\* ---- the pickle stream -------------------------------------------------
OBJ == [op |-> "OBJ", key |-> "", val |-> 0]
STOP == [op |-> "STOP", key |-> "", val |-> 0]
ITEM(k, v) == [op |-> "ITEM", key |-> k, val |-> v]
\* a zero byte: what a hole left by a write past the end of the file reads as
NUL == [op |-> "NUL", key |-> "", val |-> 0]

\* __getstate__: a copy of __dict__ without "_filename"
GetState(d) == [k \in DOMAIN d \ {FN} |-> d[k]]

\* the stream pickle writes for an object whose state is st
Dump(st) ==
  LET ks == Sorted(DOMAIN st)
  IN <<OBJ>> \o [i \in 1..Len(ks) |-> ITEM(ks[i], st[ks[i]])] \o <<STOP>>

\* pickle.dump(self, f): the object's state comes from __getstate__
Pickle(d) == Dump(GetState(d))

\* __setstate__ that forgets self.__dict__.update(state)
SetStateNoUpdate(st) == EmptyDict

\* __setstate__ that does not delete "_filename" from the state
SetStateKeepName(st) == Update(EmptyDict, st)

\* __setstate__ on the new object pickle.load builds (its __dict__ is empty)
SetState(st) == Update(EmptyDict, [k \in DOMAIN st \ {FN} |-> st[k]])

\* pickle.load: reads one object up to STOP, whatever follows it; no input is
\* EOFError, input that ends before STOP or holds a foreign byte is
\* UnpicklingError
RECURSIVE LoadItems(_, _, _)
LoadItems(data, i, acc) ==
  IF i > Len(data) THEN [err |-> "UnpicklingError", d |-> EmptyDict]
  ELSE IF data[i].op = "STOP" THEN [err |-> "none", d |-> SetState(acc)]
  ELSE IF data[i].op = "ITEM"
    THEN LoadItems(data, i + 1, Update(acc, (data[i].key :> data[i].val)))
  ELSE [err |-> "UnpicklingError", d |-> EmptyDict]

Unpickle(data) ==
  IF data = <<>> THEN [err |-> "EOFError", d |-> EmptyDict]
  ELSE IF data[1].op # "OBJ" THEN [err |-> "UnpicklingError", d |-> EmptyDict]
  ELSE LoadItems(data, 2, EmptyDict)

\* ---- the file system ---------------------------------------------------
Absent == [exists |-> FALSE, data |-> <<>>]
File(data) == [exists |-> TRUE, data |-> data]

\* open without truncation (mode 'r+b' on an existing file)
OpenWNoTrunc(file) == File(file.data)

\* open(name, 'wb'): creates the file or truncates it
OpenW(file) == File(<<>>)

\* write(bytes) on a descriptor at offset off: overwrites, extends, keeps the rest
WriteAt(data, off, bytes) ==
  LET n == IF Len(data) > off + Len(bytes) THEN Len(data) ELSE off + Len(bytes)
  IN [i \in 1..n |->
        IF i > off /\ i <= off + Len(bytes) THEN bytes[i - off]
        ELSE IF i <= Len(data) THEN data[i]
        ELSE NUL]

VARIABLES
  rec,      \* rec[i]: the __dict__ of instance i, empty before it is constructed
  schema,   \* schema[i]: the field names instance i had right after construction
  fs,       \* fs[f]: the file named f
  last,     \* the last call: its name, the file it addressed, the injected fault, what it raised
  text,     \* what str() returned, when the last call was str()
  pc,       \* pc[i]: where instance i is inside store()
  fd,       \* fd[i]: the write offset of the descriptor store() holds
  calls     \* the entries into and returns from store(), in order

vars == <<rec, schema, fs, last, text, pc, fd, calls>>

Live(i) == FN \in DOMAIN rec[i]

NoCall == [op |-> "none", file |-> 0, fault |-> "none", raised |-> "none"]
Call(op, f, fault, raised) == [op |-> op, file |-> f, fault |-> fault, raised |-> raised]
NoText == [status |-> "none", lines |-> <<>>]

\* a file an earlier version of the class left behind: the __dict__ of an
\* instance on file 2 pickled whole, "_filename" included (the case
\* __setstate__ strips)
Legacy == {Dump(Update([k \in Keys |-> 1], (FN :> 2)))}

Init ==
  /\ rec = [i \in Insts |-> EmptyDict]
  /\ schema = [i \in Insts |-> {}]
  /\ fs \in [Files -> {Absent} \cup {File(x) : x \in Legacy}]
  /\ last = NoCall
  /\ text = NoText
  /\ pc = [i \in Insts |-> "idle"]
  /\ fd = [i \in Insts |-> 0]
  /\ calls = <<>>

\* ---- the methods -------------------------------------------------------
\* open(self._filename, 'rb') then pickle.load(f), with their exceptions: an
\* absent file is ENOENT; fault "EACCES" is any other failure to open a file
\* that exists
Load(d, fsys, fault) ==
  LET file == fsys[d[FN]]
  IN IF ~file.exists THEN [err |-> "ENOENT", d |-> EmptyDict]
     ELSE IF fault = "EACCES" THEN [err |-> "EACCES", d |-> EmptyDict]
     ELSE Unpickle(file.data)

\* the update without its `if key in self.__dict__` filter
MergeAll(d, stored) == Update(d, stored)

\* self.__dict__.update((key, value) for ... in store.__dict__.items()
\*                      if key in self.__dict__)
Merge(d, stored) ==
  Update(d, [k \in DOMAIN stored \cap DOMAIN d |-> stored[k]])

\* restore(): what it raises and the __dict__ it leaves
RestoreResult(d, fsys, fault) ==
  LET got == Load(d, fsys, fault)
  IN IF got.err # "none" THEN [err |-> got.err, d |-> d]
     ELSE [err |-> "none", d |-> Merge(d, got.d)]

\* __init__ without the try/except around restore()
InitResultNoCatch(S, f, fsys, fault) ==
  RestoreResult(Update([k \in S |-> Default], (FN :> f)), fsys, fault)

\* __init__ that swallows every IOError, not only ENOENT
InitResultCatchAll(S, f, fsys, fault) ==
  LET d0 == Update([k \in S |-> Default], (FN :> f))
      r == RestoreResult(d0, fsys, fault)
  IN IF r.err \in {"ENOENT", "EACCES"} THEN [err |-> "none", d |-> d0] ELSE r

\* EgStore.__init__ after the subclass has set the defaults of the fields S:
\* sets _filename, restores, and swallows ENOENT only
InitResult(S, f, fsys, fault) ==
  LET d0 == Update([k \in S |-> Default], (FN :> f))
      r == RestoreResult(d0, fsys, fault)
  IN IF r.err = "ENOENT" THEN [err |-> "none", d |-> d0] ELSE r

\* settings = Settings(f): a failed construction leaves the variable as it was
Construct(i, f, S, fault) ==
  LET r == InitResult(S, f, fs, fault)
  IN /\ pc[i] = "idle"
     /\ rec' = IF r.err = "none" THEN [rec EXCEPT ![i] = r.d] ELSE rec
     /\ schema' = IF r.err = "none" THEN [schema EXCEPT ![i] = S] ELSE schema
     /\ fault = "EACCES" => fs[f].exists
     /\ last' = Call("construct", f, fault, r.err)
     /\ text' = NoText
     /\ UNCHANGED <<fs, pc, fd, calls>>

\* settings.restore()
Restore(i, fault) ==
  LET r == RestoreResult(rec[i], fs, fault)
  IN /\ Live(i) /\ pc[i] = "idle"
     /\ rec' = [rec EXCEPT ![i] = r.d]
     /\ fault = "EACCES" => fs[rec[i][FN]].exists
     /\ last' = Call("restore", rec[i][FN], fault, r.err)
     /\ text' = NoText
     /\ UNCHANGED <<schema, fs, pc, fd, calls>>

\* settings.k = v, for a declared field or a new one
Assign(i, k, v) ==
  /\ Live(i) /\ pc[i] = "idle"
  /\ rec' = [rec EXCEPT ![i] = Update(rec[i], (k :> v))]
  /\ last' = Call("assign", rec[i][FN], "none", "none")
  /\ text' = NoText
  /\ UNCHANGED <<schema, fs, pc, fd, calls>>

\* store() that opens the file in append mode ('ab')
StoreResultAppend(d, fsys, fault) ==
  LET f == d[FN]
      stream == Pickle(d)
  IN IF fault = "dump"
       THEN [err |-> "PicklingError", fs |-> [fsys EXCEPT ![f] = File(fsys[f].data)]]
     ELSE IF fault = "torn"
       THEN [err |-> "IOError",
             fs |-> [fsys EXCEPT ![f] = File(fsys[f].data \o SubSeq(stream, 1, 1))]]
     ELSE [err |-> "none", fs |-> [fsys EXCEPT ![f] = File(fsys[f].data \o stream)]]

\* store() as one call, the with-block closing the file on every path.
\* fault "dump": pickle.dump raises before anything is written (a value that
\* cannot be pickled); fault "torn": the write fails once the head of the
\* stream is out
StoreResult(d, fsys, fault) ==
  LET f == d[FN]
      stream == Pickle(d)
      opened == OpenW(fsys[f]).data
  IN IF fault = "dump"
       THEN [err |-> "PicklingError", fs |-> [fsys EXCEPT ![f] = File(opened)]]
     ELSE IF fault = "torn"
       THEN [err |-> "IOError",
             fs |-> [fsys EXCEPT ![f] = File(WriteAt(opened, 0, SubSeq(stream, 1, 1)))]]
     ELSE [err |-> "none", fs |-> [fsys EXCEPT ![f] = File(WriteAt(opened, 0, stream))]]

Store(i, fault) ==
  LET r == StoreResult(rec[i], fs, fault)
  IN /\ Live(i) /\ pc[i] = "idle"
     /\ fs' = r.fs
     /\ last' = Call("store", rec[i][FN], fault, r.err)
     /\ text' = NoText
     /\ UNCHANGED <<rec, schema, pc, fd, calls>>

\* kill() that tests for the file and does not remove it
KillResultNoRemove(d, fsys) == fsys

\* kill(): os.remove if os.path.isfile
KillResult(d, fsys) ==
  IF fsys[d[FN]].exists THEN [fsys EXCEPT ![d[FN]] = Absent] ELSE fsys

Kill(i) ==
  /\ Live(i) /\ pc[i] = "idle"
  /\ fs' = KillResult(rec[i], fs)
  /\ last' = Call("kill", rec[i][FN], "none", "none")
  /\ text' = NoText
  /\ UNCHANGED <<rec, schema, pc, fd, calls>>

\* ---- __str__ -----------------------------------------------------------
Max(S) == CHOOSE x \in S : \A y \in S : y <= x

\* key.ljust(width)
LJust(s, width) == s \o [i \in 1..(width - Len(s)) |-> 32]

\* '{0} : {1!r}'.format(key.ljust(width), value)
Line(key, width, value) == [key |-> LJust(key, width), val |-> value]

\* the join over `for key, value in sorted(self.__dict__.keys()) if key != FN`:
\* each element of the sorted list is a name, and `key, value = name` unpacks
\* its characters: a name of any length but two raises ValueError
RECURSIVE StrLines(_, _, _)
StrLines(names, width, acc) ==
  IF names = <<>> THEN [status |-> "ok", lines |-> acc]
  ELSE LET cs == KeyChars(Head(names))
       IN IF Len(cs) # 2 THEN [status |-> "ValueError", lines |-> <<>>]
          ELSE LET key == <<cs[1]>>
                   value == cs[2]
               IN IF key # KeyChars(FN)
                    THEN StrLines(Tail(names), width, Append(acc, Line(key, width, value)))
                    ELSE StrLines(Tail(names), width, acc)

\* __str__: max() of no key raises ValueError
StrResult(d) ==
  LET fields == DOMAIN d \ {FN}
  IN IF fields = {} THEN [status |-> "ValueError", lines |-> <<>>]
     ELSE StrLines(Sorted(DOMAIN d), Max({Len(KeyChars(k)) : k \in fields}), <<>>)

Str(i) ==
  /\ Live(i) /\ pc[i] = "idle"
  /\ text' = StrResult(rec[i])
  /\ last' = Call("str", rec[i][FN], "none", IF StrResult(rec[i]).status = "ok" THEN "none" ELSE "ValueError")
  /\ UNCHANGED <<rec, schema, fs, pc, fd, calls>>

\* ---- sequential use of one settings variable ---------------------------
Faults == {"none", "EACCES"}

DoConstruct == \E f \in Files, S \in SUBSET Keys, fault \in Faults : Construct("A", f, S, fault)
DoRestore == \E fault \in Faults : Restore("A", fault)
DoAssign == \E k \in Keys, v \in Vals : Assign("A", k, v)
DoStore == \E fault \in {"none", "dump", "torn"} : Store("A", fault)
DoKill == Kill("A")
DoStr == Str("A")

Next == DoConstruct \/ DoRestore \/ DoAssign \/ DoStore \/ DoKill \/ DoStr

Spec == Init /\ [][Next]_vars

\* ---- two instances on one file, store() step by step -------------------
\* Both instances were constructed on file 1 and their owners have set their
\* fields; the file is absent or holds an earlier store().
InitMW ==
  /\ \E a \in Dicts(Keys), b \in Dicts(Keys) :
        /\ rec = ("A" :> Update(a, (FN :> 1))) @@ ("B" :> Update(b, (FN :> 1)))
        /\ schema = ("A" :> DOMAIN a) @@ ("B" :> DOMAIN b)
  /\ \E c \in {Absent} \cup {File(Dump(st)) : st \in Dicts(Keys)} :
        fs = [f \in Files |-> IF f = 1 THEN c ELSE Absent]
  /\ last = NoCall
  /\ text = NoText
  /\ pc = [i \in Insts |-> "idle"]
  /\ fd = [i \in Insts |-> 0]
  /\ calls = <<>>

\* with open(self._filename, 'wb') as f:
StoreOpen(i) ==
  /\ pc[i] = "idle"
  /\ fs' = [fs EXCEPT ![rec[i][FN]] = OpenW(fs[rec[i][FN]])]
  /\ fd' = [fd EXCEPT ![i] = 0]
  /\ pc' = [pc EXCEPT ![i] = "opened"]
  /\ calls' = Append(calls, [ev |-> "enter", inst |-> i])
  /\ UNCHANGED <<rec, schema, last, text>>

\* pickle.dump(self, f): the stream goes to the file at the descriptor's offset
StoreWrite(i) ==
  LET f == rec[i][FN]
      stream == Pickle(rec[i])
  IN /\ pc[i] = "opened"
     /\ fs' = [fs EXCEPT ![f] = File(WriteAt(fs[f].data, fd[i], stream))]
     /\ fd' = [fd EXCEPT ![i] = fd[i] + Len(stream)]
     /\ pc' = [pc EXCEPT ![i] = "written"]
     /\ UNCHANGED <<rec, schema, last, text, calls>>

\* leaving the with-block closes the file; store() returns
StoreClose(i) ==
  /\ pc[i] = "written"
  /\ pc' = [pc EXCEPT ![i] = "done"]
  /\ calls' = Append(calls, [ev |-> "return", inst |-> i])
  /\ UNCHANGED <<rec, schema, fs, last, text, fd>>

DoOpen == \E i \in Insts : StoreOpen(i)
DoWrite == \E i \in Insts : StoreWrite(i)
DoClose == \E i \in Insts : StoreClose(i)

NextMW == DoOpen \/ DoWrite \/ DoClose

SpecMW == InitMW /\ [][NextMW]_vars

\* ---- properties --------------------------------------------------------
\* every mapping a backing file can hold, "_filename" entries included
Persisted == UNION {[S -> Vals \cup Files] : S \in SUBSET (Keys \cup {FN})}

\* their serializations, and every beginning of one
Streams == {Dump(P) : P \in Persisted}
Beginnings == UNION {{SubSeq(s, 1, n) : n \in 0..Len(s)} : s \in Streams}

\* the defaults of the fields S, on the backing file f
Defaults(S, f) == Update([k \in S |-> Default], (FN :> f))

Fields(d) == DOMAIN d \ {FN}

Returned(op) == last.op = op /\ last.raised = "none"

\* a stream cut short: no STOP in it
Truncated(data) == \A n \in 1..Len(data) : data[n].op # "STOP"

\* C1: after a restore that succeeded (the one construction performs, or a
\* later restore() call) the record's field names are exactly the ones it had
\* right after construction.
C1_SchemaClosure ==
  (Returned("construct") \/ Returned("restore")) => Fields(rec["A"]) = schema["A"]

\* C2: constructing over a persisted mapping P with schema S gives P[k] for
\* the fields of S that P holds, the default for the fields of S it lacks,
\* and no field outside S.
C2_Merge ==
  Returned("construct") =>
    \A P \in Persisted :
      (fs[last.file].exists /\ fs[last.file].data \in Streams
         /\ fs[last.file].data = Dump(P)) =>
        /\ Fields(rec["A"]) = schema["A"]
        /\ \A k \in schema["A"] :
             rec["A"][k] = IF k \in DOMAIN P THEN P[k] ELSE Default

C2_Witness ==
  /\ Returned("construct")
  /\ \E P \in Persisted :
       /\ fs[last.file] = File(Dump(P))
       /\ \E k \in schema["A"] \cap DOMAIN P : P[k] # Default
       /\ Fields(P) \ schema["A"] # {}

\* C3: a store() that returned, directly followed by a construction on the
\* same file with the same schema, gives every field of the schema the value
\* the stored record held.
C3_RoundTrip ==
  [][(/\ Returned("store")
      /\ last'.op = "construct" /\ last'.fault = "none"
      /\ last'.file = last.file
      /\ schema'["A"] = schema["A"])
     => /\ last'.raised = "none"
        /\ \A k \in schema["A"] : rec'["A"][k] = rec["A"][k]]_vars

C3_Witness ==
  /\ Returned("construct")
  /\ fs[last.file] = File(Pickle(rec["A"]))
  /\ \A k \in Keys : k \in schema["A"] /\ rec["A"][k] # Default

\* C4: constructing on a file that does not exist raises nothing and leaves
\* exactly the defaults, with _filename the name given.
C4_MissingFile ==
  (last.op = "construct" /\ ~fs[last.file].exists) =>
    /\ last.raised = "none"
    /\ rec["A"] = Defaults(schema["A"], last.file)

C4_Witness ==
  /\ last.op = "construct" /\ ~fs[last.file].exists
  /\ schema["A"] = Keys
  /\ \E f \in Files : f # last.file /\ fs[f].exists

\* C5: kill() leaves the file absent; on an absent file it raises nothing and
\* changes nothing; a construction right after it gives the defaults.
C5_Kill ==
  [][/\ last'.op = "kill" =>
          /\ ~fs'[last'.file].exists
          /\ last'.raised = "none"
          /\ \A f \in Files : f # last'.file => fs'[f] = fs[f]
          /\ ~fs[last'.file].exists => fs' = fs
          /\ rec' = rec
     /\ (last.op = "kill" /\ last'.op = "construct" /\ last'.file = last.file) =>
          /\ last'.raised = "none"
          /\ rec'["A"] = Defaults(schema'["A"], last.file)]_vars

C5_Witness ==
  /\ last.op = "kill"
  /\ ~fs[last.file].exists
  /\ \E k \in Fields(rec["A"]) : rec["A"][k] # Default

\* C6: only construction recovers from a missing file; restore() on a missing
\* file raises ENOENT, and a failure to open an existing file or to decode its
\* content comes out of construction and of restore() alike.
C6_Propagation ==
  (last.op \in {"construct", "restore"}) =>
    LET file == fs[last.file]
    IN /\ ~file.exists => last.raised = (IF last.op = "restore" THEN "ENOENT" ELSE "none")
       /\ (file.exists /\ last.fault = "EACCES") => last.raised = "EACCES"
       /\ (file.exists /\ last.fault = "none" /\ Truncated(file.data)) =>
            last.raised = (IF file.data = <<>> THEN "EOFError" ELSE "UnpicklingError")
       /\ last.raised = "none" => (~file.exists \/ ~Truncated(file.data))

C6_Witness ==
  /\ last.op = "construct"
  /\ last.raised = "UnpicklingError"

\* C7 as stated: a file is absent or holds the complete serialization of one
\* store() call.
C7_NeverPartial ==
  \A f \in Files : fs[f].exists => fs[f].data \in Streams

\* C7 as amended: a store() that returns leaves the complete serialization of
\* the record; a file is absent, complete, or the cut-short beginning of a
\* serialization left by a store() that failed.
C7_Amended ==
  /\ Returned("store") => fs[last.file] = File(Dump(GetState(rec["A"])))
  /\ \A f \in Files : fs[f].exists => fs[f].data \in Beginnings

C7_Witness ==
  /\ last.op = "store" /\ last.raised = "IOError"
  /\ fs[last.file].data # <<>>
  /\ Truncated(fs[last.file].data)

Listing(d) ==
  LET ks == Sorted(Fields(d))
      width == Max({Len(KeyChars(k)) : k \in Fields(d)})
  IN [n \in 1..Len(ks) |-> Line(KeyChars(ks[n]), width, d[ks[n]])]

\* C9: str() of a record succeeds and is the sorted, padded listing of its
\* fields.
C9_Rendering ==
  last.op = "str" => text = [status |-> "ok", lines |-> Listing(rec["A"])]

\* ---- two writers -------------------------------------------------------
BothDone == \A i \in Insts : pc[i] = "done"
LastDone == calls[Len(calls)].inst

\* the calls ran one after the other: each entry is directly followed by the
\* return of the same call
Sequential ==
  \A n \in 1..Len(calls) :
    calls[n].ev = "enter" =>
      (n < Len(calls) => calls[n + 1] = [ev |-> "return", inst |-> calls[n].inst])

\* C10 as stated: once both store() calls returned, the file holds exactly
\* the mapping of the instance that returned last.
C10_LastFinisher ==
  BothDone => fs[1] = File(Dump(GetState(rec[LastDone])))

\* C10 as amended: when the two calls do not overlap, the file holds exactly
\* the mapping of the instance that returned last.
C10_Amended ==
  (BothDone /\ Sequential) => fs[1] = File(Dump(GetState(rec[LastDone])))

C10_Witness ==
  /\ BothDone /\ Sequential
  /\ Fields(rec["A"]) # Fields(rec["B"])
  /\ \E k \in Fields(rec["A"]) \cap Fields(rec["B"]) : rec["A"][k] # rec["B"][k]

====
